---------------------------- MODULE Spec2Model ----------------------------
(***************************************************************************)
(* The log-scraping routines of the geometry-optimisation notebooks:       *)
(* plot_R(a, b) and plot_energy() read the optimiser's text trace line by  *)
(* line, select lines by a textual tag and convert fixed columns to        *)
(* floats.  Text is modelled as sequences of one-character strings, so     *)
(* that find, strip, split, startswith and float are computed, not assumed.*)
(***************************************************************************)
EXTENDS Integers, Sequences, FiniteSets

(***************************************************************************)
(* Bounds of the model.                                                    *)
(***************************************************************************)
\* longest trace (number of lines of the optimisation file)
MaxLines == 2

(***************************************************************************)
(* Python's text primitives, on sequences of characters.                   *)
(***************************************************************************)
\* characters str.strip() and str.split() treat as whitespace (those that
\* occur in the traces of this model)
IsSpace(c) == c \in {" ", "\t", "\n"}

IsDigit(c) == c \in {"0", "1", "2", "3", "4", "5", "6", "7", "8", "9"}

DigitChars == <<"0", "1", "2", "3", "4", "5", "6", "7", "8", "9">>

DigitValue(c) == CHOOSE d \in 0..9 : DigitChars[d + 1] = c

\* str(n) for an integer n >= 0: its decimal digits
RECURSIVE Str(_)
Str(n) ==
    IF n < 10 THEN <<DigitChars[n + 1]>>
    ELSE Str(n \div 10) \o <<DigitChars[(n % 10) + 1]>>

\* s.startswith(t)
StartsWith(s, t) ==
    /\ Len(t) <= Len(s)
    /\ SubSeq(s, 1, Len(t)) = t

\* s.find(t): the lowest 0-based offset at which t occurs in s, -1 if none
Find(s, t) ==
    LET hits == {k \in 0..(Len(s) - Len(t)) : SubSeq(s, k + 1, k + Len(t)) = t}
    IN  IF hits = {} THEN -1
        ELSE CHOOSE k \in hits : \A j \in hits : k <= j

\* s.strip(): s without its leading and trailing whitespace
RECURSIVE LStrip(_)
LStrip(s) ==
    IF s # <<>> /\ IsSpace(Head(s)) THEN LStrip(Tail(s)) ELSE s

RECURSIVE RStrip(_)
RStrip(s) ==
    IF s # <<>> /\ IsSpace(s[Len(s)]) THEN RStrip(SubSeq(s, 1, Len(s) - 1)) ELSE s

Strip(s) == RStrip(LStrip(s))

\* s.split(): the maximal runs of non-whitespace characters of s, in order
RECURSIVE SplitFrom(_, _, _, _)
SplitFrom(s, k, cur, acc) ==
    IF k > Len(s)
    THEN IF cur = <<>> THEN acc ELSE Append(acc, cur)
    ELSE IF IsSpace(s[k])
         THEN SplitFrom(s, k + 1, <<>>, IF cur = <<>> THEN acc ELSE Append(acc, cur))
         ELSE SplitFrom(s, k + 1, Append(cur, s[k]), acc)

Split(s) == SplitFrom(s, 1, <<>>, <<>>)

(***************************************************************************)
(* float(tok).  The decimal literals of the traces: an optional sign,      *)
(* digits with at most one point and at least one digit.  (Exponents,      *)
(* inf/nan and underscores, which float() also accepts, occur in no token  *)
(* of this model.)  The value num / 10^scale is kept in lowest terms of    *)
(* ten, so that "1.40" and "1.4" denote the same float.                    *)
(***************************************************************************)
Unsigned(tok) ==
    IF tok # <<>> /\ Head(tok) \in {"+", "-"} THEN Tail(tok) ELSE tok

Parseable(tok) ==
    LET u == Unsigned(tok)
    IN  /\ \A k \in 1..Len(u) : IsDigit(u[k]) \/ u[k] = "."
        /\ \E k \in 1..Len(u) : IsDigit(u[k])
        /\ Cardinality({k \in 1..Len(u) : u[k] = "."}) <= 1

RECURSIVE DigitsValue(_, _)
DigitsValue(ds, acc) ==
    IF ds = <<>> THEN acc
    ELSE DigitsValue(Tail(ds), 10 * acc + DigitValue(Head(ds)))

RECURSIVE Normalise(_, _)
Normalise(num, scale) ==
    IF scale > 0 /\ num % 10 = 0 THEN Normalise(num \div 10, scale - 1)
    ELSE <<num, scale>>

FloatOf(tok) ==
    LET u      == Unsigned(tok)
        point  == {k \in 1..Len(u) : u[k] = "."}
        scale  == IF point = {} THEN 0 ELSE Len(u) - (CHOOSE k \in point : TRUE)
        digits == SelectSeq(u, IsDigit)
        mag    == Normalise(DigitsValue(digits, 0), scale)
    IN  IF Head(tok) = "-" THEN <<0 - mag[1], mag[2]>> ELSE mag

(***************************************************************************)
(* The lines the traces of the model are made of: the optimiser's report   *)
(* lines for R(1,2) in their shapes (tag at different offsets, too few     *)
(* tokens, unparseable columns), lines of other pairs, the energy lines    *)
(* and the lines of the scenarios of the specification.                    *)
(***************************************************************************)
\* '  1 R(1,2) = 1.39 0.06 0.01 1.40\n'
Line_step ==
    <<" "," ","1"," ","R","(","1",",","2",")"," ","="," ","1",".","3","9"," ","0",".","0","6"," ","0",".","0","1"," ","1",".","4","0","\n">>

\* '  1 R(1,2) = 1.40 0.00 0.00 1.40\n'
Line_step_same ==
    <<" "," ","1"," ","R","(","1",",","2",")"," ","="," ","1",".","4","0"," ","0",".","0","0"," ","0",".","0","0"," ","1",".","4","0","\n">>

\* 'R(1,2) R(1,2) = 1.1 0.1 0.1 1.2\n'
Line_tag_at_0 ==
    <<"R","(","1",",","2",")"," ","R","(","1",",","2",")"," ","="," ","1",".","1"," ","0",".","1"," ","0",".","1"," ","1",".","2","\n">>

\* 'R(1,2) note'
Line_note ==
    <<"R","(","1",",","2",")"," ","n","o","t","e">>

\* '\t R(1,2) = 2.63 1.39\n'
Line_bohr ==
    <<"\t"," ","R","(","1",",","2",")"," ","="," ","2",".","6","3"," ","1",".","3","9","\n">>

\* '   R(1,2)\n'
Line_one_token ==
    <<" "," "," ","R","(","1",",","2",")","\n">>

\* '  1 R(1,2) = 1.39\n'
Line_four_tokens ==
    <<" "," ","1"," ","R","(","1",",","2",")"," ","="," ","1",".","3","9","\n">>

\* '  1 R(1,2)\n'
Line_two_tokens ==
    <<" "," ","1"," ","R","(","1",",","2",")","\n">>

\* '  1 R(1,2) = 1.39 0.06 0.01 x\n'
Line_bad_new ==
    <<" "," ","1"," ","R","(","1",",","2",")"," ","="," ","1",".","3","9"," ","0",".","0","6"," ","0",".","0","1"," ","x","\n">>

\* '  1 R(1,2) = ab 0.06 0.01 1.41\n'
Line_bad_prev ==
    <<" "," ","1"," ","R","(","1",",","2",")"," ","="," ","a","b"," ","0",".","0","6"," ","0",".","0","1"," ","1",".","4","1","\n">>

\* '  R(1,2)  R(1,2)     =   1.234   ...  5.678  '
Line_scenario_A ==
    <<" "," ","R","(","1",",","2",")"," "," ","R","(","1",",","2",")"," "," "," "," "," ","="," "," "," ","1",".","2","3","4"," "," "," ",".",".","."," "," ","5",".","6","7","8"," "," ">>

\* '  2 R(1,20) = 1.5 0.0 0.0 1.5\n'
Line_R_1_20 ==
    <<" "," ","2"," ","R","(","1",",","2","0",")"," ","="," ","1",".","5"," ","0",".","0"," ","0",".","0"," ","1",".","5","\n">>

\* '  3 R(2,1) = 1.6 0.0 0.0 1.7\n'
Line_R_2_1 ==
    <<" "," ","3"," ","R","(","2",",","1",")"," ","="," ","1",".","6"," ","0",".","0"," ","0",".","0"," ","1",".","7","\n">>

\* '\n'
Line_empty ==
    <<"\n">>

\* 'Current energy     =   -40.123456'
Line_energy_B ==
    <<"C","u","r","r","e","n","t"," ","e","n","e","r","g","y"," "," "," "," "," ","="," "," "," ","-","4","0",".","1","2","3","4","5","6">>

\* 'Current energy = -40.1\n'
Line_energy_1 ==
    <<"C","u","r","r","e","n","t"," ","e","n","e","r","g","y"," ","="," ","-","4","0",".","1","\n">>

\* 'Current energy = -40.2\n'
Line_energy_2 ==
    <<"C","u","r","r","e","n","t"," ","e","n","e","r","g","y"," ","="," ","-","4","0",".","2","\n">>

\* '\tCurrent energy   :      -230.72\n'
Line_energy_psi4 ==
    <<"\t","C","u","r","r","e","n","t"," ","e","n","e","r","g","y"," "," "," ",":"," "," "," "," "," "," ","-","2","3","0",".","7","2","\n">>

\* 'x Current energy = 1.0\n'
Line_energy_mid ==
    <<"x"," ","C","u","r","r","e","n","t"," ","e","n","e","r","g","y"," ","="," ","1",".","0","\n">>

\* 'Current energy =\n'
Line_energy_short ==
    <<"C","u","r","r","e","n","t"," ","e","n","e","r","g","y"," ","=","\n">>

\* 'Current energy = abc\n'
Line_energy_bad ==
    <<"C","u","r","r","e","n","t"," ","e","n","e","r","g","y"," ","="," ","a","b","c","\n">>

\* 'R(1,2)'
Tag_R_1_2 ==
    <<"R","(","1",",","2",")">>

\* 'R(2,1)'
Tag_R_2_1 ==
    <<"R","(","2",",","1",")">>

\* ' R(1,2) R(1,2) = 1.1 0.1 0.1 1.2\n'
Line_tag_at_1 ==
    <<" ","R","(","1",",","2",")"," ","R","(","1",",","2",")"," ","="," ","1",".","1"," ","0",".","1"," ","0",".","1"," ","1",".","2","\n">>

\* 'Optimizer\n'
Line_word ==
    <<"O","p","t","i","m","i","z","e","r","\n">>

\* '  2 R(1,20) R(1,2) = 1.5 0.0 0.0 1.5\n'
Line_R_1_20_ref ==
    <<" "," ","2"," ","R","(","1",",","2","0",")"," ","R","(","1",",","2",")"," ","="," ","1",".","5"," ","0",".","0"," ","0",".","0"," ","1",".","5","\n">>

\* '  4 R(11,2) = 1.8 0.0 0.0 1.9\n'
Line_R_11_2 ==
    <<" "," ","4"," ","R","(","1","1",",","2",")"," ","="," ","1",".","8"," ","0",".","0"," ","0",".","0"," ","1",".","9","\n">>

\* '  5 R(1,21) = 2.0 0.0 0.0 2.1\n'
Line_R_1_21 ==
    <<" "," ","5"," ","R","(","1",",","2","1",")"," ","="," ","2",".","0"," ","0",".","0"," ","0",".","0"," ","2",".","1","\n">>

(***************************************************************************)
(* Columns and offsets the code reads (0-based, as in the source).         *)
(***************************************************************************)
\* line.find(pair_notation) > 1
MinOffset == 1
\* line.strip().split()[1]
SecondTok == 1
\* rows_with_R_pairs[0][3]
FirstCol == 3
\* item[6]
LaterCol == 6
\* line.split()[3] of plot_energy
EnergyCol == 3

\* the literal of plot_energy: 'Current energy'
Tag_Current_energy ==
    <<"C","u","r","r","e","n","t"," ","e","n","e","r","g","y">>

(***************************************************************************)
(* State.  trace is the content of the geometry-optimisation file; the     *)
(* other variables are the locals of the call in progress, its outcome as  *)
(* the caller sees it, and the outcome of the call before it.              *)
(***************************************************************************)
VARIABLES
    trace,              \* the lines of <molecule_name>_geometry_optimization.dat
    pc,                 \* position of the call: idle, filter, first, loop, scan, done
    fn,                 \* the function called: "plot_R", "plot_energy", "" before any call
    a, b,               \* the arguments of plot_R
    f,                  \* the file object: [closed, pos], pos = lines read so far
    pair_notation,      \* local of plot_R
    rows_with_R_pairs,  \* local of plot_R
    bond_distances,     \* local of plot_R
    item_pos,           \* items of rows_with_R_pairs the for loop has taken
    energy_values,      \* the list the comprehension of plot_energy is building
    returned,           \* the call returned a value
    ret,                \* the value returned
    err,                \* the exception the call ended with, "" if none
    err_at,             \* the statement that raised it
    last,               \* outcome of the previous call on this trace
    molecule_name,      \* the module-level variable the file name is built from
    files,              \* content of <name>_geometry_optimization.dat, by name
    last_trace,         \* the lines the previous call read
    \* the torsion scan cell
    spc,                \* position of the cell
    phi,                \* list of the cell
    pes_energy_values,  \* the list energy_values of the cell
    P,                  \* the loop variable, NoP before the loop
    E,                  \* the value psi4.optimize returned last
    frozen_dihedral1,
    frozen_dihedral2,
    frozen_dihedral_total,
    optking,            \* the module options of optking: [fixed_dihedral, g_convergence]
    stdout,             \* what the cell has printed, in order
    scan_err,           \* the exception the cell ended with, "" if none
    runs,               \* the optimizations started: [constraint, raised, E]
    \* the frequency exercises
    fpc,                \* position in the solutions
    rawfreq,            \* the raw frequencies: pairs <<re2, im2>> in halves of cm^-1
    roundnzfreq,
    freqlist,           \* rows <<frequency, count>>
    saved               \* the lines of methane_FreqList.dat

vars == <<trace, pc, fn, a, b, f, pair_notation, rows_with_R_pairs, bond_distances,
          item_pos, energy_values, returned, ret, err, err_at, last,
          molecule_name, files, last_trace,
          spc, phi, pes_energy_values, P, E, frozen_dihedral1, frozen_dihedral2,
          frozen_dihedral_total, optking, stdout, scan_err, runs,
          fpc, rawfreq, roundnzfreq, freqlist, saved>>

\* what no step inside a call touches
env == <<molecule_name, files, last_trace>>

\* the variables of the extractors
extractors == <<trace, pc, fn, a, b, f, pair_notation, rows_with_R_pairs, bond_distances,
                item_pos, energy_values, returned, ret, err, err_at, last, env>>

\* the variables of the torsion scan cell
torsion == <<spc, phi, pes_energy_values, P, E, frozen_dihedral1, frozen_dihedral2,
             frozen_dihedral_total, optking, stdout, scan_err, runs>>

\* the variables of the frequency exercises
finale == <<fpc, rawfreq, roundnzfreq, freqlist, saved>>

\* what the extractors do not touch
beyond == <<torsion, finale>>

\* P before the for statement binds it
NoP == -1

\* the torsion scan cell has not run
TorsionIdle ==
    /\ spc = "idle"
    /\ phi = <<>>
    /\ pes_energy_values = <<>>
    /\ P = NoP
    /\ E = 0
    /\ frozen_dihedral1 = <<>>
    /\ frozen_dihedral2 = <<>>
    /\ frozen_dihedral_total = <<>>
    /\ optking = [fixed_dihedral |-> <<>>, g_convergence |-> ""]
    /\ stdout = <<>>
    /\ scan_err = ""
    /\ runs = <<>>

\* no frequency exercise has run
FinaleIdle ==
    /\ fpc = "idle"
    /\ rawfreq = <<>>
    /\ roundnzfreq = <<>>
    /\ freqlist = <<>>
    /\ saved = <<>>

\* the values the notebooks give molecule_name
Names == {"benzene", "nitrobenzene"}

\* the argument pairs plot_R is called with
Pairs == {<<1, 2>>, <<2, 1>>}

NoCall == [fn |-> "", a |-> 0, b |-> 0, returned |-> FALSE, ret |-> <<>>, err |-> ""]

Outcome == [fn |-> fn, a |-> a, b |-> b, returned |-> returned, ret |-> ret, err |-> err]

\* the files of at most MaxLines lines over L: iterating a file yields lines that
\* end with a newline, except possibly the last
TracesOver(L) ==
    {t \in UNION {[1..n -> L] : n \in 0..MaxLines} :
        \A k \in 1..(Len(t) - 1) : t[k][Len(t[k])] = "\n"}

\* the notebook before the first call
InitLocals ==
    /\ pc = "idle"
    /\ fn = ""
    /\ a = 0
    /\ b = 0
    /\ f = [closed |-> TRUE, pos |-> 0]
    /\ pair_notation = <<>>
    /\ rows_with_R_pairs = <<>>
    /\ bond_distances = <<>>
    /\ item_pos = 0
    /\ energy_values = <<>>
    /\ returned = FALSE
    /\ ret = <<>>
    /\ err = ""
    /\ err_at = ""
    /\ last = NoCall
    /\ last_trace = <<>>

\* molecule_name = "benzene"; its file holds a trace over L
InitOver(L) ==
    /\ trace \in TracesOver(L)
    /\ molecule_name = "benzene"
    /\ files = [n \in Names |-> IF n = "benzene" THEN trace ELSE <<>>]
    /\ InitLocals
    /\ TorsionIdle
    /\ FinaleIdle

\* open(name) opens for reading: no file changes
OpenTruncates(fs, name) == [fs EXCEPT ![name] = <<>>]

OpenEffect(fs, name) == fs

FileReadFirst(fs, name) == fs["benzene"]

\* the lines of the file open(molecule_name + '_geometry_optimization.dat') yields
FileRead(fs, name) == fs[name]

ReuseFile(old) == [closed |-> FALSE, pos |-> old.pos]

\* a fresh file object, positioned at the first line
OpenFile(old) == [closed |-> FALSE, pos |-> 0]

(***************************************************************************)
(* An exception leaves the with block: the file is closed, the call ends   *)
(* with the exception and returns nothing; the list built so far is lost.  *)
(***************************************************************************)
RaiseKeepsPartial(kind, at, pos, partial) ==
    /\ returned' = TRUE
    /\ ret' = partial
    /\ err' = ""
    /\ err_at' = ""
    /\ f' = [closed |-> TRUE, pos |-> pos]
    /\ pc' = "done"

RaiseAndRetry(kind, at, pos, partial) ==
    /\ f' = [closed |-> FALSE, pos |-> 0]
    /\ pc' = IF fn = "plot_R" THEN "filter" ELSE "scan"
    /\ UNCHANGED <<err, err_at, returned, ret>>

RaiseLeavesOpen(kind, at, pos, partial) ==
    /\ err' = kind
    /\ err_at' = at
    /\ f' = [closed |-> FALSE, pos |-> pos]
    /\ pc' = "done"
    /\ UNCHANGED <<returned, ret>>

Raise(kind, at, pos, partial) ==
    /\ err' = kind
    /\ err_at' = at
    /\ f' = [closed |-> TRUE, pos |-> pos]
    /\ pc' = "done"
    /\ UNCHANGED <<returned, ret>>

(***************************************************************************)
(* plot_R(a, b)                                                            *)
(***************************************************************************)
\* 'R(' + str(a) + ',' + str(b) + ')'
PairNotation(x, y) == <<"R", "(">> \o Str(x) \o <<",">> \o Str(y) \o <<")">>

TagFoundFromOne(line, tag) == Find(line, tag) > 0

TagFoundAnywhere(line, tag) == Find(line, tag) > -1

\* line.find(pair_notation) > 1
TagFound(line, tag) == Find(line, tag) > MinOffset

SecondTokenAny(line, tag) == TRUE

SecondTokenOpenPrefix(line, tag) ==
    StartsWith(Split(Strip(line))[SecondTok + 1], SubSeq(tag, 1, Len(tag) - 1))

\* line.strip().split()[1].startswith(pair_notation)
SecondTokenMatches(line, tag) == StartsWith(Split(Strip(line))[SecondTok + 1], tag)

FilterErrorEager(line, tag) ==
    IF Len(Split(Strip(line))) < SecondTok + 1 THEN "IndexError" ELSE ""

\* the exception the condition of the comprehension raises on a line, "" if none:
\* split()[1] of a line with a single token, evaluated only when find(...) > 1
FilterError(line, tag) ==
    IF TagFound(line, tag) /\ Len(Split(Strip(line))) < SecondTok + 1
    THEN "IndexError"
    ELSE ""

FirstReadErrorLookup(rows) ==
    IF Len(rows) = 0 THEN "LookupError"
    ELSE IF Len(rows[1]) < FirstCol + 1 THEN "IndexError"
    ELSE IF ~Parseable(rows[1][FirstCol + 1]) THEN "ValueError"
    ELSE ""

\* the exception of float(rows_with_R_pairs[0][3]), "" if none
FirstReadError(rows) ==
    IF Len(rows) = 0 THEN "IndexError"
    ELSE IF Len(rows[1]) < FirstCol + 1 THEN "IndexError"
    ELSE IF ~Parseable(rows[1][FirstCol + 1]) THEN "ValueError"
    ELSE ""

FirstAppendSkipped(bd, rows) == bd

\* bond_distances.append(float(rows_with_R_pairs[0][3]))
FirstAppend(bd, rows) == Append(bd, FloatOf(rows[1][FirstCol + 1]))

\* the exception of float(item[6]), "" if none
ItemError(item) ==
    IF Len(item) < LaterCol + 1 THEN "IndexError"
    ELSE IF ~Parseable(item[LaterCol + 1]) THEN "ValueError"
    ELSE ""

ItemAppendFirstCol(bd, item) == Append(bd, FloatOf(item[FirstCol + 1]))

\* bond_distances.append(float(item[6]))
ItemAppend(bd, item) == Append(bd, FloatOf(item[LaterCol + 1]))

plot_R_call ==
    /\ pc \in {"idle", "done"}
    /\ \E p \in Pairs :
        /\ a' = p[1]
        /\ b' = p[2]
        /\ pair_notation' = PairNotation(p[1], p[2])
    /\ fn' = "plot_R"
    /\ f' = OpenFile(f)
    /\ rows_with_R_pairs' = <<>>
    /\ bond_distances' = <<>>
    /\ item_pos' = 0
    /\ energy_values' = <<>>
    /\ returned' = FALSE
    /\ ret' = <<>>
    /\ err' = ""
    /\ err_at' = ""
    /\ last' = IF pc = "done" THEN Outcome ELSE last
    /\ pc' = "filter"
    /\ files' = OpenEffect(files, molecule_name)
    /\ trace' = FileRead(files', molecule_name)
    /\ last_trace' = IF pc = "done" THEN trace ELSE last_trace
    /\ UNCHANGED <<molecule_name, beyond>>

\* one line of the comprehension that builds rows_with_R_pairs
plot_R_filter ==
    /\ pc = "filter"
    /\ f.pos < Len(trace)
    /\ LET line == trace[f.pos + 1]
           e    == FilterError(line, pair_notation)
       IN  IF e # ""
           THEN /\ Raise(e, "filter", f.pos + 1, <<>>)
                /\ UNCHANGED rows_with_R_pairs
           ELSE /\ rows_with_R_pairs' =
                       IF TagFound(line, pair_notation)
                          /\ SecondTokenMatches(line, pair_notation)
                       THEN Append(rows_with_R_pairs, Split(line))
                       ELSE rows_with_R_pairs
                /\ f' = [f EXCEPT !.pos = @ + 1]
                /\ UNCHANGED <<pc, returned, ret, err, err_at>>
    /\ UNCHANGED <<env, beyond>>
    /\ UNCHANGED <<trace, fn, a, b, pair_notation, bond_distances, item_pos,
                   energy_values, last>>

\* the file is exhausted: bond_distances = []
plot_R_filter_end ==
    /\ pc = "filter"
    /\ f.pos = Len(trace)
    /\ bond_distances' = <<>>
    /\ pc' = "first"
    /\ UNCHANGED <<env, beyond>>
    /\ UNCHANGED <<trace, fn, a, b, f, pair_notation, rows_with_R_pairs, item_pos,
                   energy_values, returned, ret, err, err_at, last>>

plot_R_first ==
    /\ pc = "first"
    /\ LET e == FirstReadError(rows_with_R_pairs)
       IN  IF e # ""
           THEN /\ Raise(e, "first", f.pos, bond_distances)
                /\ UNCHANGED bond_distances
           ELSE /\ bond_distances' = FirstAppend(bond_distances, rows_with_R_pairs)
                /\ pc' = "loop"
                /\ UNCHANGED <<f, returned, ret, err, err_at>>
    /\ UNCHANGED <<env, beyond>>
    /\ UNCHANGED <<trace, fn, a, b, pair_notation, rows_with_R_pairs, item_pos,
                   energy_values, last>>

plot_R_loop ==
    /\ pc = "loop"
    /\ item_pos < Len(rows_with_R_pairs)
    /\ LET item == rows_with_R_pairs[item_pos + 1]
           e    == ItemError(item)
       IN  IF e # ""
           THEN /\ Raise(e, "loop", f.pos, bond_distances)
                /\ UNCHANGED <<bond_distances, item_pos>>
           ELSE /\ bond_distances' = ItemAppend(bond_distances, item)
                /\ item_pos' = item_pos + 1
                /\ UNCHANGED <<pc, f, returned, ret, err, err_at>>
    /\ UNCHANGED <<env, beyond>>
    /\ UNCHANGED <<trace, fn, a, b, pair_notation, rows_with_R_pairs,
                   energy_values, last>>

\* return bond_distances, leaving the with block
plot_R_return ==
    /\ pc = "loop"
    /\ item_pos = Len(rows_with_R_pairs)
    /\ returned' = TRUE
    /\ ret' = bond_distances
    /\ f' = [f EXCEPT !.closed = TRUE]
    /\ pc' = "done"
    /\ UNCHANGED <<env, beyond>>
    /\ UNCHANGED <<trace, fn, a, b, pair_notation, rows_with_R_pairs, bond_distances,
                   item_pos, energy_values, err, err_at, last>>

(***************************************************************************)
(* plot_energy()                                                           *)
(***************************************************************************)
EnergyLineAnywhere(line) == Find(line, Tag_Current_energy) > -1

\* line.strip().startswith('Current energy')
EnergyLine(line) == StartsWith(Strip(line), Tag_Current_energy)

\* the exception of float(line.split()[3]), "" if none
EnergyError(line) ==
    IF Len(Split(line)) < EnergyCol + 1 THEN "IndexError"
    ELSE IF ~Parseable(Split(line)[EnergyCol + 1]) THEN "ValueError"
    ELSE ""

EnergyPrepend(ev, line) == <<FloatOf(Split(line)[EnergyCol + 1])>> \o ev

\* the element float(line.split()[3]) joins the list
EnergyAppend(ev, line) == Append(ev, FloatOf(Split(line)[EnergyCol + 1]))

plot_energy_call ==
    /\ pc \in {"idle", "done"}
    /\ fn' = "plot_energy"
    /\ a' = 0
    /\ b' = 0
    /\ pair_notation' = <<>>
    /\ f' = OpenFile(f)
    /\ rows_with_R_pairs' = <<>>
    /\ bond_distances' = <<>>
    /\ item_pos' = 0
    /\ energy_values' = <<>>
    /\ returned' = FALSE
    /\ ret' = <<>>
    /\ err' = ""
    /\ err_at' = ""
    /\ last' = IF pc = "done" THEN Outcome ELSE last
    /\ pc' = "scan"
    /\ files' = OpenEffect(files, molecule_name)
    /\ trace' = FileRead(files', molecule_name)
    /\ last_trace' = IF pc = "done" THEN trace ELSE last_trace
    /\ UNCHANGED <<molecule_name, beyond>>

\* one line of the comprehension that builds energy_values
plot_energy_scan ==
    /\ pc = "scan"
    /\ f.pos < Len(trace)
    /\ LET line == trace[f.pos + 1]
       IN  IF EnergyLine(line)
           THEN IF EnergyError(line) # ""
                THEN /\ Raise(EnergyError(line), "scan", f.pos + 1, energy_values)
                     /\ UNCHANGED energy_values
                ELSE /\ energy_values' = EnergyAppend(energy_values, line)
                     /\ f' = [f EXCEPT !.pos = @ + 1]
                     /\ UNCHANGED <<pc, returned, ret, err, err_at>>
           ELSE /\ f' = [f EXCEPT !.pos = @ + 1]
                /\ UNCHANGED <<energy_values, pc, returned, ret, err, err_at>>
    /\ UNCHANGED <<env, beyond>>
    /\ UNCHANGED <<trace, fn, a, b, pair_notation, rows_with_R_pairs, bond_distances,
                   item_pos, last>>

\* return energy_values, leaving the with block
plot_energy_return ==
    /\ pc = "scan"
    /\ f.pos = Len(trace)
    /\ returned' = TRUE
    /\ ret' = energy_values
    /\ f' = [f EXCEPT !.closed = TRUE]
    /\ pc' = "done"
    /\ UNCHANGED <<env, beyond>>
    /\ UNCHANGED <<trace, fn, a, b, pair_notation, rows_with_R_pairs, bond_distances,
                   item_pos, energy_values, err, err_at, last>>

(***************************************************************************)
(* Between two calls a notebook cell may rebind molecule_name.             *)
(***************************************************************************)
set_molecule_name ==
    /\ pc \in {"idle", "done"}
    /\ molecule_name' \in Names \ {molecule_name}
    /\ UNCHANGED <<trace, pc, fn, a, b, f, pair_notation, rows_with_R_pairs,
                   bond_distances, item_pos, energy_values, returned, ret, err,
                   err_at, last, files, last_trace, beyond>>

(***************************************************************************)
(* The torsion scan cell: for P in range(0, 181, 10) the dihedrals are     *)
(* frozen at P, the structure is optimized, and P and the energy are       *)
(* appended to phi and energy_values.                                      *)
(***************************************************************************)
RangeStart == 0

RangeStop == 181

RangeStep == 10

\* "2 1 7 8 "
dihedral1 == <<"2", " ", "1", " ", "7", " ", "8", " ">>

\* "6 1 7 9 "
dihedral2 == <<"6", " ", "1", " ", "7", " ", "9", " ">>

Announcement == "The value of the frozen_dihedrals is: "

OptimizerMessage == "Optimizer: Optimization complete!"

CompletionMessage == "All optimizations complete!"

\* a printed line; value is the number print was given after the text, NoP if none
Printed(text, value) == [text |-> text, value |-> value]

\* the exceptions psi4.optimize ends with when it does not converge
OptimizeErrors == {"ConvergenceError", "OptimizationConvergenceError"}

\* the value range(0, 181, 10) yields after p
RangeNext(p) == IF p = NoP THEN RangeStart ELSE p + RangeStep

\* dihedral + " " + str(P)
Frozen(dihedral, p) == dihedral \o <<" ">> \o Str(p)

FrozenTotalFirst(fd1, fd2) == fd1

\* frozen_dihedral1 + " " + frozen_dihedral2
FrozenTotal(fd1, fd2) == fd1 \o <<" ">> \o fd2

\* the energy of the structure optimized under the constraint: the angle is the
\* last number of the fixed_dihedral option
OptimizedEnergy(constraint) ==
    LET toks == Split(constraint)
    IN  IF toks = <<>> THEN -434000
        ELSE -434000 - DigitsValue(toks[Len(toks)], 0)

ScanRaiseThenPrint(kind) ==
    /\ spc' = "print_all"
    /\ scan_err' = kind

\* the exception leaves the for loop and the cell
ScanRaise(kind) ==
    /\ spc' = "failed"
    /\ scan_err' = kind

RecordEnergyFirst(ev, e) == <<e>> \o ev

\* energy_values.append(E)
RecordEnergy(ev, e) == Append(ev, e)

\* phi = []; energy_values = []
scan_begin ==
    /\ spc = "idle"
    /\ phi' = <<>>
    /\ pes_energy_values' = <<>>
    /\ spc' = "for"
    /\ UNCHANGED <<P, E, frozen_dihedral1, frozen_dihedral2, frozen_dihedral_total,
                   optking, stdout, scan_err, runs>>
    /\ UNCHANGED <<extractors, finale>>

\* for P in range(0, 181, 10): the next value, or the end of the loop
scan_for ==
    /\ spc = "for"
    /\ IF RangeNext(P) < RangeStop
       THEN /\ P' = RangeNext(P)
            /\ spc' = "freeze"
       ELSE /\ spc' = "print_all"
            /\ UNCHANGED P
    /\ UNCHANGED <<phi, pes_energy_values, E, frozen_dihedral1, frozen_dihedral2,
                   frozen_dihedral_total, optking, stdout, scan_err, runs>>
    /\ UNCHANGED <<extractors, finale>>

scan_freeze ==
    /\ spc = "freeze"
    /\ frozen_dihedral1' = Frozen(dihedral1, P)
    /\ frozen_dihedral2' = Frozen(dihedral2, P)
    /\ spc' = "announce"
    /\ UNCHANGED <<phi, pes_energy_values, P, E, frozen_dihedral_total, optking,
                   stdout, scan_err, runs>>
    /\ UNCHANGED <<extractors, finale>>

\* print('\nThe value of the frozen_dihedrals is: ', P)
scan_announce ==
    /\ spc = "announce"
    /\ stdout' = Append(stdout, Printed(Announcement, P))
    /\ spc' = "total"
    /\ UNCHANGED <<phi, pes_energy_values, P, E, frozen_dihedral1, frozen_dihedral2,
                   frozen_dihedral_total, optking, scan_err, runs>>
    /\ UNCHANGED <<extractors, finale>>

scan_total ==
    /\ spc = "total"
    /\ frozen_dihedral_total' = FrozenTotal(frozen_dihedral1, frozen_dihedral2)
    /\ spc' = "set_fixed"
    /\ UNCHANGED <<phi, pes_energy_values, P, E, frozen_dihedral1, frozen_dihedral2,
                   optking, stdout, scan_err, runs>>
    /\ UNCHANGED <<extractors, finale>>

\* psi4.set_module_options('optking', {'fixed_dihedral': frozen_dihedral_total})
scan_set_fixed ==
    /\ spc = "set_fixed"
    /\ optking' = [optking EXCEPT !.fixed_dihedral = frozen_dihedral_total]
    /\ spc' = "set_conv"
    /\ UNCHANGED <<phi, pes_energy_values, P, E, frozen_dihedral1, frozen_dihedral2,
                   frozen_dihedral_total, stdout, scan_err, runs>>
    /\ UNCHANGED <<extractors, finale>>

\* psi4.set_module_options('optking', {'g_convergence': 'gau_loose'})
scan_set_conv ==
    /\ spc = "set_conv"
    /\ optking' = [optking EXCEPT !.g_convergence = "gau_loose"]
    /\ spc' = "optimize"
    /\ UNCHANGED <<phi, pes_energy_values, P, E, frozen_dihedral1, frozen_dihedral2,
                   frozen_dihedral_total, stdout, scan_err, runs>>
    /\ UNCHANGED <<extractors, finale>>

\* E = psi4.optimize(...) returns, under the options optking holds
scan_optimize_returns ==
    /\ spc = "optimize"
    /\ E' = OptimizedEnergy(optking.fixed_dihedral)
    /\ runs' = Append(runs, [constraint |-> optking.fixed_dihedral,
                             raised |-> FALSE,
                             E |-> E'])
    /\ stdout' = Append(stdout, Printed(OptimizerMessage, NoP))
    /\ spc' = "append_phi"
    /\ UNCHANGED <<phi, pes_energy_values, P, frozen_dihedral1, frozen_dihedral2,
                   frozen_dihedral_total, optking, scan_err>>
    /\ UNCHANGED <<extractors, finale>>

\* psi4.optimize(...) raises
scan_optimize_raises ==
    /\ spc = "optimize"
    /\ \E kind \in OptimizeErrors : ScanRaise(kind)
    /\ runs' = Append(runs, [constraint |-> optking.fixed_dihedral,
                             raised |-> TRUE,
                             E |-> 0])
    /\ UNCHANGED <<phi, pes_energy_values, P, E, frozen_dihedral1, frozen_dihedral2,
                   frozen_dihedral_total, optking, stdout>>
    /\ UNCHANGED <<extractors, finale>>

\* phi.append(P)
scan_append_phi ==
    /\ spc = "append_phi"
    /\ phi' = Append(phi, P)
    /\ spc' = "append_E"
    /\ UNCHANGED <<pes_energy_values, P, E, frozen_dihedral1, frozen_dihedral2,
                   frozen_dihedral_total, optking, stdout, scan_err, runs>>
    /\ UNCHANGED <<extractors, finale>>

\* energy_values.append(E)
scan_append_energy ==
    /\ spc = "append_E"
    /\ pes_energy_values' = RecordEnergy(pes_energy_values, E)
    /\ spc' = "for"
    /\ UNCHANGED <<phi, P, E, frozen_dihedral1, frozen_dihedral2,
                   frozen_dihedral_total, optking, stdout, scan_err, runs>>
    /\ UNCHANGED <<extractors, finale>>

\* print('All optimizations complete!')
scan_print_all ==
    /\ spc = "print_all"
    /\ stdout' = Append(stdout, Printed(CompletionMessage, NoP))
    /\ spc' = "end"
    /\ UNCHANGED <<phi, pes_energy_values, P, E, frozen_dihedral1, frozen_dihedral2,
                   frozen_dihedral_total, optking, scan_err, runs>>
    /\ UNCHANGED <<extractors, finale>>

(***************************************************************************)
(* The frequency exercises of the lesson.  A raw frequency is a complex    *)
(* number <<re2, im2>>, real and imaginary part in halves of cm^-1, so     *)
(* that rounding has ties to decide; a rounded frequency is an integer.    *)
(***************************************************************************)
MaxFreqs == 9

\* 0 + 0.5j, 2.5, 3.5
RawValues == {<<0, 1>>, <<5, 0>>, <<7, 0>>}

RawLists == UNION {[1..n -> RawValues] : n \in 0..MaxFreqs}

\* np.real
Real(z) == z[1]

\* np.round of x2 / 2: to the nearest integer, a tie to the even one
Round(x2) ==
    LET q == x2 \div 2
    IN  IF x2 % 2 = 0 THEN q
        ELSE IF q % 2 = 0 THEN q ELSE q + 1

\* the index the slice [6:] starts from
NonZeroFrom == 6

\* s[n:]
SliceFrom(s, n) == IF n >= Len(s) THEN <<>> ELSE SubSeq(s, n + 1, Len(s))

\* np.round(np.real(rawfreq))[6:]
RoundNonZero(raw) == SliceFrom([k \in 1..Len(raw) |-> Round(Real(raw[k]))], NonZeroFrom)

RECURSIVE Insert(_, _)
Insert(x, s) ==
    IF s = <<>> THEN <<x>>
    ELSE IF x <= Head(s) THEN <<x>> \o s
    ELSE <<Head(s)>> \o Insert(x, Tail(s))

AsGiven(s) == s

\* the elements of s in ascending order
RECURSIVE Sorted(_)
Sorted(s) == IF s = <<>> THEN <<>> ELSE Insert(Head(s), Sorted(Tail(s)))

\* np.unique(s, return_counts=True): the sorted distinct values and, for each, the
\* length of its run in the sorted array
Unique(s) ==
    LET t      == Sorted(s)
        firsts == SelectSeq([k \in 1..Len(t) |-> k],
                            LAMBDA k : k = 1 \/ t[k] # t[k - 1])
        n      == Len(firsts)
    IN  << [i \in 1..n |-> t[firsts[i]]],
           [i \in 1..n |-> (IF i < n THEN firsts[i + 1] ELSE Len(t) + 1) - firsts[i]] >>

\* np.array(u).T: one row <<value, count>> per column of u
Transposed(u) == [i \in 1..Len(u[1]) |-> <<u[1][i], u[2][i]>>]

\* header='freq,degen'
Header == <<"#", " ", "f", "r", "e", "q", ",", "d", "e", "g", "e", "n">>

\* '%0.1f' of a float with an integer value
FormatFloat(v) ==
    (IF v < 0 THEN <<"-">> ELSE <<>>) \o Str(IF v < 0 THEN -v ELSE v) \o <<".", "0">>

\* '%0.1f,%d' of a row
FormatRow(row) == FormatFloat(row[1]) \o <<",">> \o Str(row[2])

\* the lines np.savetxt writes
SaveTxt(rows) == <<Header>> \o [i \in 1..Len(rows) |-> FormatRow(rows[i])]

\* rawfreq = scf_wfn.frequency_analysis['omega'][2]
finale_rawfreq ==
    /\ fpc = "idle"
    /\ rawfreq' \in RawLists
    /\ fpc' = "raw"
    /\ UNCHANGED <<roundnzfreq, freqlist, saved>>
    /\ UNCHANGED <<extractors, torsion>>

\* roundnzfreq = np.round(np.real(rawfreq))[6:]
finale_round ==
    /\ fpc = "raw"
    /\ roundnzfreq' = RoundNonZero(rawfreq)
    /\ fpc' = "rounded"
    /\ UNCHANGED <<rawfreq, freqlist, saved>>
    /\ UNCHANGED <<extractors, torsion>>

\* freqlist = np.array(np.unique(roundnzfreq, return_counts=True)).T
finale_unique ==
    /\ fpc = "rounded"
    /\ freqlist' = Transposed(Unique(roundnzfreq))
    /\ fpc' = "listed"
    /\ UNCHANGED <<rawfreq, roundnzfreq, saved>>
    /\ UNCHANGED <<extractors, torsion>>

\* np.savetxt('methane_FreqList.dat', freqlist, fmt='%0.1f,%d', header='freq,degen')
finale_savetxt ==
    /\ fpc = "listed"
    /\ saved' = SaveTxt(freqlist)
    /\ fpc' = "saved"
    /\ UNCHANGED <<rawfreq, roundnzfreq, freqlist>>
    /\ UNCHANGED <<extractors, torsion>>

RLines ==
    {Line_step, Line_step_same, Line_tag_at_0, Line_note, Line_bohr, Line_one_token,
     Line_four_tokens, Line_two_tokens, Line_bad_new, Line_bad_prev, Line_scenario_A,
     Line_R_1_20, Line_R_2_1, Line_empty, Line_energy_1, Line_tag_at_1}

ELines ==
    {Line_energy_B, Line_energy_1, Line_energy_2, Line_energy_psi4, Line_energy_mid,
     Line_energy_short, Line_energy_bad, Line_empty, Line_step}

\* lines of both kinds, for the properties that speak of both extractors
MixLines ==
    {Line_step, Line_four_tokens, Line_bad_new, Line_one_token, Line_R_2_1,
     Line_empty, Line_word, Line_energy_1, Line_energy_short, Line_energy_bad}

\* lines of the two files of the properties that speak of molecule_name
GLines == {Line_step, Line_energy_1}

\* lines whose second token is the tag of another pair
TLines ==
    {Line_step, Line_R_1_20, Line_R_1_20_ref, Line_R_11_2, Line_R_1_21, Line_R_2_1}

InitR == InitOver(RLines)

InitT == InitOver(TLines)

InitE == InitOver(ELines)

Init == InitOver(MixLines)

InitG ==
    /\ molecule_name = "benzene"
    /\ files \in [Names -> TracesOver(GLines)]
    /\ trace = files[molecule_name]
    /\ InitLocals
    /\ TorsionIdle
    /\ FinaleIdle

NextR ==
    \/ plot_R_call
    \/ plot_R_filter
    \/ plot_R_filter_end
    \/ plot_R_first
    \/ plot_R_loop
    \/ plot_R_return

NextE ==
    \/ plot_energy_call
    \/ plot_energy_scan
    \/ plot_energy_return

\* calls of plot_R on a trace of bond-distance lines
SpecR == InitR /\ [][NextR]_vars

\* calls of plot_energy on a trace of energy lines
SpecE == InitE /\ [][NextE]_vars

Next == NextR \/ NextE

NextG == NextR \/ NextE \/ set_molecule_name

\* calls of both extractors on one trace
Spec == Init /\ [][Next]_vars

\* calls of both extractors, molecule_name rebound between calls
SpecG == InitG /\ [][NextG]_vars


\* calls of plot_R on a trace with lines of several pairs
SpecT == InitT /\ [][NextR]_vars

\* the statements of a call in progress; a call, once made, runs to its end
Step ==
    \/ plot_R_filter
    \/ plot_R_filter_end
    \/ plot_R_first
    \/ plot_R_loop
    \/ plot_R_return
    \/ plot_energy_scan
    \/ plot_energy_return

\* calls of both extractors on one trace, each call running on
SpecFair == Init /\ [][Next]_vars /\ WF_vars(Step)

\* no trace, no call of an extractor
ExtractorsIdle ==
    /\ trace = <<>>
    /\ molecule_name = "benzene"
    /\ files = [n \in Names |-> <<>>]
    /\ InitLocals

InitScan == ExtractorsIdle /\ TorsionIdle /\ FinaleIdle

NextScan ==
    \/ scan_begin
    \/ scan_for
    \/ scan_freeze
    \/ scan_announce
    \/ scan_total
    \/ scan_set_fixed
    \/ scan_set_conv
    \/ scan_optimize_returns
    \/ scan_optimize_raises
    \/ scan_append_phi
    \/ scan_append_energy
    \/ scan_print_all

\* one run of the torsion scan cell
SpecScan == InitScan /\ [][NextScan]_vars

InitF == ExtractorsIdle /\ TorsionIdle /\ FinaleIdle

NextF ==
    \/ finale_rawfreq
    \/ finale_round
    \/ finale_unique
    \/ finale_savetxt

\* the frequency exercises, on a list of raw frequencies
SpecF == InitF /\ [][NextF]_vars
(***************************************************************************)
(* Vocabulary of the properties, stated on the text of the trace and       *)
(* independently of the operators the actions use.                         *)
(***************************************************************************)
\* the tag of the call in progress, written out
TheTag == IF a = 1 THEN Tag_R_1_2 ELSE Tag_R_2_1

TagOfPair(x, y) == IF x = 1 THEN Tag_R_1_2 ELSE Tag_R_2_1

Contains(s, t) == \E k \in 0..(Len(s) - Len(t)) : SubSeq(s, k + 1, k + Len(t)) = t

Tokens(line) == Split(Strip(line))

SecondTokenHasTag(line, tag) ==
    /\ Len(Tokens(line)) >= 2
    /\ StartsWith(Tokens(line)[2], tag)

\* the selection rule as the specification words it
SelectedAsSpecified(line, tag) == Contains(line, tag) /\ SecondTokenHasTag(line, tag)

\* the selection rule with the offset of the first occurrence of the tag
Selected(line, tag) == Find(line, tag) >= 2 /\ SecondTokenHasTag(line, tag)

\* a line with the tag at offset 2 or later and a single token
SingleTokenTagged(line, tag) == Find(line, tag) >= 2 /\ Len(Tokens(line)) < 2

\* a line with the tag in it whose second token does not start with the tag
Guarded(line, tag) ==
    /\ Contains(line, tag)
    /\ Len(Tokens(line)) >= 2
    /\ ~StartsWith(Tokens(line)[2], tag)

RowsOf(lines) == [k \in 1..Len(lines) |-> Split(lines[k])]

SelectedRows(lines, tag) == RowsOf(SelectSeq(lines, LAMBDA l : Selected(l, tag)))

SpecifiedRows(lines, tag) ==
    RowsOf(SelectSeq(lines, LAMBDA l : SelectedAsSpecified(l, tag)))

NoSingleTokenTagged(lines, tag) ==
    \A k \in 1..Len(lines) : ~SingleTokenTagged(lines[k], tag)

\* the selected rows can all be read: token 3 of the first, token 6 of each
WellFormedRows(rows) ==
    /\ rows # <<>>
    /\ Len(rows[1]) >= 4
    /\ Parseable(rows[1][4])
    /\ \A k \in 1..Len(rows) : Len(rows[k]) >= 7 /\ Parseable(rows[k][7])

\* what the first unreadable column of the selected rows is, in the order the
\* code reads them: "none", "short" (too few tokens) or "unparseable"
FirstFailure(rows) ==
    IF Len(rows[1]) < 4 THEN "short"
    ELSE IF ~Parseable(rows[1][4]) THEN "unparseable"
    ELSE LET bad == {k \in 1..Len(rows) : Len(rows[k]) < 7 \/ ~Parseable(rows[k][7])}
         IN  IF bad = {} THEN "none"
             ELSE LET m == CHOOSE k \in bad : \A j \in bad : k <= j
                  IN  IF Len(rows[m]) < 7 THEN "short" ELSE "unparseable"

\* the situation of a call plot_R(x, y) on the trace
Situation(x, y) ==
    LET tag  == TagOfPair(x, y)
        rows == SelectedRows(trace, tag)
    IN  IF ~NoSingleTokenTagged(trace, tag) THEN "single token"
        ELSE IF rows = <<>> THEN "no match"
        ELSE FirstFailure(rows)

\* the series the specification describes for the selected rows
ExpectedSeries(rows) ==
    <<FloatOf(rows[1][4])>> \o [k \in 1..Len(rows) |-> FloatOf(rows[k][7])]

PlotRDone == pc = "done" /\ fn = "plot_R"

\* the comprehension of plot_R is running or has completed
Filtering == fn = "plot_R" /\ pc \in {"filter", "first", "loop"}

LinesRead == SubSeq(trace, 1, f.pos)

(***************************************************************************)
(* C1.  Original statement: every trace with k >= 1 selected lines, each   *)
(* well-formed, makes plot_R return a sequence of length k + 1.            *)
(***************************************************************************)
C1_Original ==
    (PlotRDone /\ WellFormedRows(SelectedRows(trace, TheTag)))
        => (returned /\ Len(ret) = Len(SelectedRows(trace, TheTag)) + 1)

\* C1, amended: on a trace with k >= 1 selected lines, each well-formed, and no
\* line that has the tag at offset 2 or later and a single token, plot_R returns
\* a sequence of length k + 1.
C1_Length ==
    (/\ PlotRDone
     /\ WellFormedRows(SelectedRows(trace, TheTag))
     /\ NoSingleTokenTagged(trace, TheTag))
        => (returned /\ Len(ret) = Len(SelectedRows(trace, TheTag)) + 1)

C1_Witness ==
    /\ PlotRDone
    /\ WellFormedRows(SelectedRows(trace, TheTag))
    /\ NoSingleTokenTagged(trace, TheTag)
    /\ Len(SelectedRows(trace, TheTag)) = 2
    /\ returned
    /\ Len(ret) = 3

(***************************************************************************)
(* C2.  On success element 0 of the result is token 3 of the first         *)
(* selected line and element i is token 6 of the i-th selected line, in    *)
(* trace order, equal values kept.                                         *)
(***************************************************************************)
C2_Values ==
    (PlotRDone /\ returned) => ret = ExpectedSeries(SelectedRows(trace, TheTag))

\* two selected lines with the same new value: both are kept
C2_Witness ==
    /\ PlotRDone
    /\ returned
    /\ Len(SelectedRows(trace, TheTag)) = 2
    /\ Len(ret) = 3
    /\ ret[2] = ret[3]
    /\ ret[1] # ret[2]

Unguarded(lines, tag) == SelectSeq(lines, LAMBDA l : ~Guarded(l, tag))

C4_Guard ==
    /\ Filtering =>
        /\ \A k \in 1..Len(rows_with_R_pairs) :
              \A j \in 1..f.pos :
                  Guarded(trace[j], TheTag) => rows_with_R_pairs[k] # Split(trace[j])
        /\ Len(rows_with_R_pairs) <= Len(Unguarded(LinesRead, TheTag))
    /\ (PlotRDone /\ returned) =>
        ret = ExpectedSeries(SelectedRows(Unguarded(trace, TheTag), TheTag))

\* scenario D: 'R(1,2) note' beside a selected line
C4_Witness ==
    /\ PlotRDone
    /\ a = 1
    /\ b = 2
    /\ returned
    /\ Len(trace) = 2
    /\ trace[2] = Line_note
    /\ Len(ret) = 2

(***************************************************************************)
(* C5.  With zero selected lines (the empty trace included) plot_R ends    *)
(* with the error of the empty-sequence read and returns nothing; it never *)
(* returns an empty or one-element sequence.                               *)
(***************************************************************************)
C5_NotFound ==
    /\ (PlotRDone /\ SelectedRows(trace, TheTag) = <<>>)
          => (~returned /\ err = "IndexError")
    /\ (PlotRDone /\ returned) => Len(ret) >= 2

C5_Witness ==
    /\ PlotRDone
    /\ trace # <<>>
    /\ SelectedRows(trace, TheTag) = <<>>
    /\ err_at = "first"
    /\ err = "IndexError"
    /\ ~returned

(***************************************************************************)
(* C6.  When a selected line has fewer than 7 tokens, or a token to be     *)
(* read is not parseable, plot_R ends with an error and returns nothing,   *)
(* not even the elements parsed before the bad line.                       *)
(***************************************************************************)
IllFormed(rows) == rows # <<>> /\ ~WellFormedRows(rows)

C6_Format ==
    (PlotRDone /\ IllFormed(SelectedRows(trace, TheTag))) =>
        /\ ~returned
        /\ ret = <<>>
        /\ err \in {"IndexError", "ValueError"}
        /\ Situation(a, b) = "short" => err = "IndexError"
        /\ Situation(a, b) = "unparseable" => err = "ValueError"

\* two elements were parsed before the bad line, and none is returned
C6_Witness ==
    /\ PlotRDone
    /\ IllFormed(SelectedRows(trace, TheTag))
    /\ Len(bond_distances) = 2
    /\ err_at = "loop"
    /\ ~returned

(***************************************************************************)
(* C7.  Original statement: the error of 'no line matches the tag' is of a *)
(* different kind from the error of 'a selected line has too few tokens'.  *)
(* Stated on two calls of plot_R on the same trace, one in each situation. *)
(***************************************************************************)
TwoCalls == PlotRDone /\ last.fn = "plot_R"

C7_Original ==
    (/\ TwoCalls
     /\ Situation(last.a, last.b) = "short"
     /\ Situation(a, b) = "no match")
        => err # last.err

\* C7, amended: 'no line matches the tag' and 'a selected line has too few tokens'
\* end with the same kind of error, IndexError, so the error alone does not tell
\* them apart; only an unparseable token ends with another kind, ValueError.
C7_Taxonomy ==
    /\ (/\ TwoCalls
        /\ Situation(last.a, last.b) = "short"
        /\ Situation(a, b) = "no match")
           => (err = "IndexError" /\ last.err = "IndexError")
    /\ (/\ TwoCalls
        /\ Situation(last.a, last.b) = "unparseable"
        /\ Situation(a, b) \in {"no match", "short"})
           => (last.err = "ValueError" /\ err = "IndexError")

C7_Witness ==
    /\ TwoCalls
    /\ Situation(last.a, last.b) = "short"
    /\ Situation(a, b) = "no match"
    /\ err = last.err

(***************************************************************************)
(* Vocabulary of the properties of plot_energy.                            *)
(***************************************************************************)
PlotEnergyDone == pc = "done" /\ fn = "plot_energy"

\* the trimmed line starts with 'Current energy'
EnergySelected(line) == StartsWith(Strip(line), Tag_Current_energy)

EnergyLines(lines) == SelectSeq(lines, EnergySelected)

EnergyWellFormed(line) == Len(Split(line)) >= 4 /\ Parseable(Split(line)[4])

AllEnergyWellFormed(lines) ==
    \A k \in 1..Len(lines) : EnergySelected(lines[k]) => EnergyWellFormed(lines[k])

\* the first selected line that cannot be read
FirstBadEnergyLine(lines) ==
    lines[CHOOSE k \in 1..Len(lines) :
            /\ EnergySelected(lines[k]) /\ ~EnergyWellFormed(lines[k])
            /\ \A j \in 1..(k - 1) :
                  EnergySelected(lines[j]) => EnergyWellFormed(lines[j])]

(***************************************************************************)
(* C8.  When the selected lines are well-formed, plot_energy returns as    *)
(* many elements as there are lines whose trimmed content starts with      *)
(* 'Current energy' (the text elsewhere in a line does not count); with no *)
(* such line it returns the empty sequence and raises no error.            *)
(***************************************************************************)
C8_EnergyLength ==
    (PlotEnergyDone /\ AllEnergyWellFormed(trace)) =>
        /\ returned
        /\ err = ""
        /\ Len(ret) = Len(EnergyLines(trace))
        /\ EnergyLines(trace) = <<>> => ret = <<>>

\* a line with 'Current energy' after its first token is not counted
C8_Witness ==
    /\ PlotEnergyDone
    /\ returned
    /\ Len(trace) = 2
    /\ trace[1] = Line_energy_mid
    /\ EnergySelected(trace[2])
    /\ Len(ret) = 1

(***************************************************************************)
(* C9.  On success the i-th element of the result of plot_energy is token  *)
(* 3 of the i-th selected line, in trace order, repeated values kept;      *)
(* scenario B gives [-40.123456], scenario C gives [-40.1, -40.2].         *)
(***************************************************************************)
C9_EnergyValues ==
    /\ (PlotEnergyDone /\ returned) =>
          ret = [k \in 1..Len(EnergyLines(trace)) |->
                    FloatOf(Split(EnergyLines(trace)[k])[4])]
    /\ (PlotEnergyDone /\ trace = <<Line_energy_B>>) =>
          (returned /\ ret = << <<-40123456, 6>> >>)
    /\ (PlotEnergyDone /\ trace = <<Line_energy_1, Line_energy_2>>) =>
          (returned /\ ret = << <<-401, 1>>, <<-402, 1>> >>)
    /\ (PlotEnergyDone /\ trace = <<Line_energy_1, Line_energy_1>>) =>
          (returned /\ ret = << <<-401, 1>>, <<-401, 1>> >>)

\* scenario C has run
C9_Witness ==
    /\ PlotEnergyDone
    /\ trace = <<Line_energy_1, Line_energy_2>>
    /\ returned
    /\ Len(ret) = 2
    /\ ret[1] # ret[2]

(***************************************************************************)
(* C10.  When a selected line has fewer than 4 tokens or an unparseable    *)
(* token 3, plot_energy ends with an error and returns nothing, also when  *)
(* earlier selected lines were well-formed.                                *)
(***************************************************************************)
C10_EnergyFormat ==
    (PlotEnergyDone /\ ~AllEnergyWellFormed(trace)) =>
        /\ ~returned
        /\ ret = <<>>
        /\ err = IF Len(Split(FirstBadEnergyLine(trace))) < 4
                 THEN "IndexError"
                 ELSE "ValueError"

\* a well-formed selected line was read before the bad one
C10_Witness ==
    /\ PlotEnergyDone
    /\ ~AllEnergyWellFormed(trace)
    /\ Len(energy_values) = 1
    /\ err # ""
    /\ ~returned

(***************************************************************************)
(* The outcome of a call as the caller sees it, and the outcome the trace  *)
(* and the arguments determine.                                            *)
(***************************************************************************)
Result == [returned |-> returned, ret |-> ret, err |-> err]

Failure(kind) == [returned |-> FALSE, ret |-> <<>>, err |-> kind]

Success(series) == [returned |-> TRUE, ret |-> series, err |-> ""]

ExpectedR(lines, tag) ==
    LET rows == SelectedRows(lines, tag)
    IN  IF ~NoSingleTokenTagged(lines, tag) THEN Failure("IndexError")
        ELSE IF rows = <<>> THEN Failure("IndexError")
        ELSE IF FirstFailure(rows) = "short" THEN Failure("IndexError")
        ELSE IF FirstFailure(rows) = "unparseable" THEN Failure("ValueError")
        ELSE Success(ExpectedSeries(rows))

ExpectedE(lines) ==
    IF AllEnergyWellFormed(lines)
    THEN Success([k \in 1..Len(EnergyLines(lines)) |->
                     FloatOf(Split(EnergyLines(lines)[k])[4])])
    ELSE IF Len(Split(FirstBadEnergyLine(lines))) < 4 THEN Failure("IndexError")
    ELSE Failure("ValueError")

Expected(g, x, y, lines) ==
    IF g = "plot_R" THEN ExpectedR(lines, TagOfPair(x, y)) ELSE ExpectedE(lines)

Running == pc \in {"filter", "first", "loop", "scan"}

\* the call that has ended repeats the call before it
SameCallTwice == pc = "done" /\ last.fn = fn /\ last.a = a /\ last.b = b

SameOutcome == returned = last.returned /\ ret = last.ret /\ err = last.err

(***************************************************************************)
(* C11.  Original statement: on the one-line trace of scenario A,          *)
(* '  R(1,2)  R(1,2)     =   1.234   ...  5.678  ', plot_R(1, 2) returns    *)
(* [1.234, 5.678].                                                         *)
(***************************************************************************)
ScenarioA == PlotRDone /\ a = 1 /\ b = 2 /\ trace = <<Line_scenario_A>>

C11_Original ==
    ScenarioA => (returned /\ ret = << <<1234, 3>>, <<5678, 3>> >>)

\* C11, amended: on the one-line trace of scenario A plot_R(1, 2) selects the line
\* and reads 1.234 at index 3, but the line has 6 tokens (5.678 is at index 5), so
\* the read of index 6 raises IndexError and nothing is returned.
C11_ScenarioA ==
    ScenarioA =>
        /\ ~returned
        /\ err = "IndexError"
        /\ err_at = "loop"
        /\ Len(rows_with_R_pairs) = 1
        /\ Len(rows_with_R_pairs[1]) = 6
        /\ rows_with_R_pairs[1][6] = <<"5", ".", "6", "7", "8">>
        /\ bond_distances = << <<1234, 3>> >>

C11_Witness == ScenarioA /\ err = "IndexError" /\ bond_distances = << <<1234, 3>> >>

(***************************************************************************)
(* C12.  Original statement: for every successful scan by either extractor *)
(* the length of the series equals the number of lines that match the      *)
(* tag's selection rule.                                                   *)
(***************************************************************************)
Matching ==
    IF fn = "plot_R" THEN Len(SelectedRows(trace, TheTag)) ELSE Len(EnergyLines(trace))

C12_Original == (pc = "done" /\ returned) => Len(ret) = Matching

\* C12, amended: for every successful scan the length of the series returned by
\* plot_energy equals the number of matching lines, and the length of the series
\* returned by plot_R equals the number of matching lines plus one.
C12_SeriesLength ==
    /\ (PlotEnergyDone /\ returned) => Len(ret) = Matching
    /\ (PlotRDone /\ returned) => Len(ret) = Matching + 1

C12_Witness == PlotRDone /\ returned /\ Matching = 2 /\ Len(ret) = 3

(***************************************************************************)
(* C13.  Two consecutive calls of the same extractor with the same         *)
(* arguments on the unchanged trace give the same outcome: the same        *)
(* sequence, or the same error.                                            *)
(***************************************************************************)
C13_Idempotent == SameCallTwice => SameOutcome

C13_Witness ==
    /\ SameCallTwice
    /\ fn = "plot_R"
    /\ returned
    /\ last.returned
    /\ Len(ret) = 3

(***************************************************************************)
(* C14.  The file a call opens is closed when the call ends, on the return *)
(* path and on every error path; while the call runs it is open.           *)
(***************************************************************************)
C14_Closed ==
    /\ pc = "done" => f.closed
    /\ Running => ~f.closed

\* an error raised while lines are still to be read
C14_Witness ==
    /\ pc = "done"
    /\ err # ""
    /\ f.pos < Len(trace)
    /\ f.closed

(***************************************************************************)
(* C15.  No step of a call, successful or failing, changes the content of  *)
(* the trace file or of any other file.                                    *)
(***************************************************************************)
C15_ReadOnly == [][files' = files /\ trace' = trace]_vars

\* a failed call and a successful one have run on a trace that is still there
C15_Witness ==
    /\ pc = "done"
    /\ last.err # ""
    /\ returned
    /\ Len(trace) = 2
    /\ files[molecule_name] = trace
    /\ last_trace = trace

(***************************************************************************)
(* C16.  Original statement: the outcome depends on the trace and the      *)
(* arguments only; no module-level variable influences which lines are     *)
(* read.  Stated on two calls with the same arguments over the same files. *)
(***************************************************************************)
C16_Original ==
    SameCallTwice =>
        Result = [returned |-> last.returned, ret |-> last.ret, err |-> last.err]

\* C16, amended: the outcome of each extractor is a function of the arguments and
\* of the content of the file the module-level variable molecule_name names when
\* the call is made; molecule_name decides which lines are read, nothing else of
\* the program state does.
C16_Purity ==
    /\ Running => trace = files[molecule_name]
    /\ pc = "done" => Result = Expected(fn, a, b, trace)
    /\ (SameCallTwice /\ last_trace = trace) => SameOutcome

\* the same call on the same files, molecule_name rebound in between
C16_Witness ==
    /\ SameCallTwice
    /\ last_trace # trace
    /\ last_trace = files["benzene"]
    /\ trace = files["nitrobenzene"]
    /\ returned # last.returned

(***************************************************************************)
(* C17.  Whatever calls came before on the trace, successful or failed, a  *)
(* call has the outcome it has as the first call; a failed extraction for  *)
(* one pair does not alter the extraction of another series.               *)
(***************************************************************************)
C17_Restartable == pc = "done" => Result = Expected(fn, a, b, trace)

\* plot_R succeeds for one pair after it failed for the other
C17_Witness ==
    /\ PlotRDone
    /\ last.fn = "plot_R"
    /\ last.a # a
    /\ last.err # ""
    /\ returned

(***************************************************************************)
(* C18.  A line in which the first occurrence of the tag is at offset 0 or *)
(* 1 of the raw line is never selected, also when its second token starts  *)
(* with the tag.                                                           *)
(***************************************************************************)
FromOffsetTwo(lines, tag) == SelectSeq(lines, LAMBDA l : Find(l, tag) >= 2)

C19_SingleToken ==
    (PlotRDone /\ ~NoSingleTokenTagged(trace, TheTag)) =>
        /\ ~returned
        /\ err = "IndexError"
        /\ err_at = "filter"

\* the single-token line follows a well-formed selected line
C19_Witness ==
    /\ PlotRDone
    /\ Len(trace) = 2
    /\ Selected(trace[1], TheTag)
    /\ WellFormedRows(<<Split(trace[1])>>)
    /\ SingleTokenTagged(trace[2], TheTag)
    /\ Len(rows_with_R_pairs) = 1
    /\ ~returned

(***************************************************************************)
(* C20.  A line without the tag never makes plot_R fail and contributes no *)
(* element; a line whose trimmed content does not start with               *)
(* 'Current energy' never makes plot_energy fail and contributes none.     *)
(***************************************************************************)
WithTag(lines, tag) == SelectSeq(lines, LAMBDA l : Contains(l, tag))

C20_Unrelated ==
    /\ PlotRDone => Result = ExpectedR(WithTag(trace, TheTag), TheTag)
    /\ PlotEnergyDone => Result = ExpectedE(EnergyLines(trace))
    /\ (fn = "plot_R" /\ err_at = "filter") => Contains(trace[f.pos], TheTag)
    /\ (fn = "plot_energy" /\ err_at = "scan") => EnergySelected(trace[f.pos])

\* a line of at most one token without the tag, beside a selected line
C20_Witness ==
    /\ PlotRDone
    /\ returned
    /\ Len(trace) = 2
    /\ ~Contains(trace[1], TheTag)
    /\ Len(Tokens(trace[1])) <= 1
    /\ Len(ret) = 2

(***************************************************************************)
(* C21.  The tag is 'R(' + a + ',' + b + ')', and a line whose second      *)
(* token is exactly 'R(c,d)' for positive integers (c,d) other than (a,b)  *)
(* is not selected by plot_R(a, b): plot_R(1, 2) selects no R(1,20),       *)
(* R(11,2), R(1,21) or R(2,1) line.                                        *)
(***************************************************************************)
IsPositiveNumeral(s) ==
    /\ Len(s) >= 1
    /\ \A k \in 1..Len(s) : IsDigit(s[k])
    /\ s[1] # "0"

\* tok is 'R(c,d)' for positive integers c, d
IsPairToken(tok) ==
    /\ Len(tok) >= 6
    /\ tok[1] = "R"
    /\ tok[2] = "("
    /\ tok[Len(tok)] = ")"
    /\ \E i \in 4..(Len(tok) - 2) :
          /\ tok[i] = ","
          /\ IsPositiveNumeral(SubSeq(tok, 3, i - 1))
          /\ IsPositiveNumeral(SubSeq(tok, i + 1, Len(tok) - 1))

OtherPairLine(line, tag) ==
    /\ Len(Tokens(line)) >= 2
    /\ IsPairToken(Tokens(line)[2])
    /\ Tokens(line)[2] # tag

NotOtherPair(lines, tag) == SelectSeq(lines, LAMBDA l : ~OtherPairLine(l, tag))

C21_Discrimination ==
    /\ (fn = "plot_R" /\ pc # "idle") => pair_notation = TheTag
    /\ Filtering =>
        /\ \A k \in 1..Len(rows_with_R_pairs) :
              \E j \in 1..f.pos :
                  /\ rows_with_R_pairs[k] = Split(trace[j])
                  /\ ~OtherPairLine(trace[j], TheTag)
        /\ Len(rows_with_R_pairs) <= Len(NotOtherPair(LinesRead, TheTag))

\* the line read first has R(1,20) as second token and R(1,2) further on
C21_Witness ==
    /\ PlotRDone
    /\ a = 1
    /\ trace = <<Line_R_1_20_ref, Line_step>>
    /\ Len(rows_with_R_pairs) = 1
    /\ returned
    /\ Len(ret) = 2

(***************************************************************************)
(* C22.  Every call of plot_R or plot_energy on a finite trace eventually  *)
(* ends, with a sequence or an error; it opens the trace once, reads the   *)
(* lines in order, each at most once, and makes no second pass, also after *)
(* an error.                                                               *)
(***************************************************************************)
Opening == pc \in {"idle", "done"} /\ pc' \in {"filter", "scan"}

SinglePassStep ==
    \* the file is opened by the call and by nothing else
    /\ Opening => (f'.pos = 0 /\ ~f'.closed)
    /\ ~Opening => (f'.pos \in {f.pos, f.pos + 1} /\ (f.closed => f'.closed))
    \* a line is read by the comprehension only, the next one of the file
    /\ (~Opening /\ f'.pos = f.pos + 1) =>
          /\ pc \in {"filter", "scan"}
          /\ f.pos < Len(trace)
    /\ (pc = "filter" /\ rows_with_R_pairs' # rows_with_R_pairs) =>
          /\ f'.pos = f.pos + 1
          /\ rows_with_R_pairs' = Append(rows_with_R_pairs, Split(trace[f'.pos]))
    /\ (pc = "scan" /\ energy_values' # energy_values) =>
          /\ f'.pos = f.pos + 1
          /\ Len(energy_values') = Len(energy_values) + 1
    \* no second pass: the comprehension is not entered again, an error ends the call
    /\ (pc' \in {"filter", "scan"} /\ pc' # pc) => Opening
    /\ (err' # err /\ ~Opening) => (pc' = "done" /\ err = "")
    /\ pc = "done" => (Opening \/ pc' = "done")

C22_SinglePass == [][SinglePassStep]_vars /\ (Running ~> pc = "done")

\* the file was read to its end, the error came after it, and the call has ended
C22_Witness ==
    /\ pc = "done"
    /\ Len(trace) = 2
    /\ f.pos = 2
    /\ f.closed
    /\ err # ""
    /\ err_at = "loop"

(***************************************************************************)
(* Vocabulary of the properties of the torsion scan.                       *)
(***************************************************************************)
Count(lines, text) == Len(SelectSeq(lines, LAMBDA l : l.text = text))

\* the tokens of a constraint that freezes both dihedrals at p
ConstraintTokens(p) ==
    << <<"2">>, <<"1">>, <<"7">>, <<"8">>, Str(p),
       <<"6">>, <<"1">>, <<"7">>, <<"9">>, Str(p) >>

\* the k-th dihedral value of 0, 10, ..., 180
DihedralValue(k) == 10 * (k - 1)

Announced == SelectSeq(stdout, LAMBDA l : l.text = "The value of the frozen_dihedrals is: ")

LoopBoundary == spc \in {"for", "failed", "print_all", "end"}

(***************************************************************************)
(* C23.  'All optimizations complete!' is printed exactly once and only    *)
(* after all 19 optimizations, of the dihedral values 0, 10, ..., 180,     *)
(* have returned; if an optimization raises it is never printed.           *)
(***************************************************************************)
C23_Completion ==
    /\ Count(stdout, "All optimizations complete!") <= 1
    /\ Count(stdout, "All optimizations complete!") = 1 =>
        /\ stdout[Len(stdout)].text = "All optimizations complete!"
        /\ Len(runs) = 19
        /\ \A k \in 1..19 :
              /\ ~runs[k].raised
              /\ Split(runs[k].constraint) = ConstraintTokens(DihedralValue(k))
        /\ Count(stdout, "Optimizer: Optimization complete!") = 19
    /\ spc = "end" => Count(stdout, "All optimizations complete!") = 1
    /\ (scan_err # "" \/ \E k \in 1..Len(runs) : runs[k].raised) =>
          Count(stdout, "All optimizations complete!") = 0

C23_Witness ==
    /\ spc = "end"
    /\ Count(stdout, "All optimizations complete!") = 1
    /\ Len(runs) = 19
    /\ scan_err = ""

(***************************************************************************)
(* C24.  At every loop boundary of the scan, also when an optimization     *)
(* raises, phi and energy_values have the same length, phi is a prefix of  *)
(* 0, 10, ..., 180 and energy_values[i] is the value the optimization run  *)
(* with dihedral phi[i] returned; after normal completion both lists have  *)
(* 19 entries.                                                             *)
(***************************************************************************)
C24_Lockstep ==
    /\ Len(phi) <= 19
    /\ \A i \in 1..Len(phi) : phi[i] = DihedralValue(i)
    /\ LoopBoundary =>
        /\ Len(phi) = Len(pes_energy_values)
        /\ Len(phi) <= Len(runs)
        /\ \A i \in 1..Len(phi) :
              /\ ~runs[i].raised
              /\ Split(runs[i].constraint) = ConstraintTokens(phi[i])
              /\ pes_energy_values[i] = runs[i].E
    /\ spc = "end" => (Len(phi) = 19 /\ Len(pes_energy_values) = 19)

\* the fourth optimization raised
C24_Witness ==
    /\ spc = "failed"
    /\ scan_err # ""
    /\ Len(runs) = 4
    /\ runs[4].raised
    /\ phi = <<0, 10, 20>>
    /\ Len(pes_energy_values) = 3

(***************************************************************************)
(* C25.  In every iteration P is announced and the fixed-dihedral          *)
(* constraint naming both dihedrals, '2 1 7 8' and '6 1 7 9', with the     *)
(* current P is set before the optimization of that iteration starts: no   *)
(* optimization runs under the constraint of an earlier iteration, and an  *)
(* announcement is followed by that iteration's optimization before the    *)
(* next announcement.                                                      *)
(***************************************************************************)
C25_StepOrder ==
    \* an optimization for every announcement but, while it is prepared, the last
    /\ Len(runs) <= Len(Announced)
    /\ Len(Announced) <= Len(runs) + 1
    /\ Len(Announced) = Len(runs) + 1 <=>
          spc \in {"total", "set_fixed", "set_conv", "optimize"}
    \* each optimization ran under the constraint of the value announced for it
    /\ \A k \in 1..Len(runs) :
          /\ Announced[k].value = DihedralValue(k)
          /\ Split(runs[k].constraint) = ConstraintTokens(Announced[k].value)
    \* the optimization about to start finds the constraint of the current P
    /\ spc = "optimize" =>
          /\ Announced[Len(Announced)].value = P
          /\ Split(optking.fixed_dihedral) = ConstraintTokens(P)
          /\ optking.g_convergence = "gau_loose"

\* the third optimization is about to start, the constraint of 10 replaced
C25_Witness ==
    /\ spc = "optimize"
    /\ P = 20
    /\ Len(runs) = 2
    /\ Split(runs[2].constraint) = ConstraintTokens(10)
    /\ Split(optking.fixed_dihedral) = ConstraintTokens(20)

(***************************************************************************)
(* Vocabulary of the properties of the frequency exercises.                *)
(***************************************************************************)
NonZero(s) == SelectSeq(s, LAMBDA x : x # 0)

AllRounded(raw) == [k \in 1..Len(raw) |-> Round(raw[k][1])]

Occurrences(s, v) == Cardinality({k \in 1..Len(s) : s[k] = v})

Values(s) == {s[k] : k \in 1..Len(s)}

RECURSIVE SumOfCounts(_)
SumOfCounts(rows) == IF rows = <<>> THEN 0 ELSE Head(rows)[2] + SumOfCounts(Tail(rows))

CommaAt(line) == CHOOSE k \in 1..Len(line) : line[k] = ","

\* a saved row 'f,d': f reads as the float v, d is the integer n in digits
RowReads(line, v, n) ==
    /\ Cardinality({k \in 1..Len(line) : line[k] = ","}) = 1
    /\ LET left  == SubSeq(line, 1, CommaAt(line) - 1)
           right == SubSeq(line, CommaAt(line) + 1, Len(line))
       IN  /\ Parseable(left)
           /\ FloatOf(left) = <<v, 0>>
           /\ right # <<>>
           /\ \A k \in 1..Len(right) : IsDigit(right[k])
           /\ DigitsValue(right, 0) = n

(***************************************************************************)
(* C26.  For every list of raw frequencies roundnzfreq, the rounded real   *)
(* parts with the first six entries dropped, contains only the non-zero    *)
(* frequencies: no element of it is zero and no non-zero rounded frequency *)
(* of the input is missing from it.                                        *)
(***************************************************************************)
C26_OnlyNonZero ==
    fpc \in {"rounded", "listed", "saved"} =>
        /\ \A k \in 1..Len(roundnzfreq) : roundnzfreq[k] # 0
        /\ roundnzfreq = NonZero(AllRounded(rawfreq))

(***************************************************************************)
(* C27.  freqlist has exactly one row {frequency, count} per distinct      *)
(* value of roundnzfreq, in ascending order of frequency, each count the   *)
(* number of occurrences of the value in roundnzfreq, so that the counts   *)
(* sum to the length of roundnzfreq; the saved file has one row per        *)
(* distinct value with its integer count.                                  *)
(***************************************************************************)
C27_Degeneracy ==
    /\ fpc \in {"listed", "saved"} =>
        /\ {freqlist[i][1] : i \in 1..Len(freqlist)} = Values(roundnzfreq)
        /\ Len(freqlist) = Cardinality(Values(roundnzfreq))
        /\ \A i \in 1..Len(freqlist) :
              /\ i > 1 => freqlist[i - 1][1] < freqlist[i][1]
              /\ freqlist[i][2] = Occurrences(roundnzfreq, freqlist[i][1])
        /\ SumOfCounts(freqlist) = Len(roundnzfreq)
    /\ fpc = "saved" =>
        /\ Len(saved) = 1 + Cardinality(Values(roundnzfreq))
        /\ saved[1][1] = "#"
        /\ \A i \in 1..Len(freqlist) :
              RowReads(saved[i + 1], freqlist[i][1],
                       Occurrences(roundnzfreq, freqlist[i][1]))

\* a degenerate frequency, given before and after a lower one
C27_Witness ==
    /\ fpc = "saved"
    /\ roundnzfreq = <<4, 2, 4>>
    /\ freqlist = << <<2, 1>>, <<4, 2>> >>
    /\ Len(saved) = 3

=============================================================================
